---- MODULE Spec2Model ----
(***************************************************************************)
(* Dual-rate telemetry polling of the Robot Fleet Dashboard client:        *)
(*   - main.js drivers setupMotorDataWorker and setupMotorDataUpdateRate   *)
(*     (general-status loop, fallback poller, merges into robotData);     *)
(*   - motorDataWorker.js (the background poller, a Web Worker).          *)
(* A fetch cycle's two awaits (fetch, response.json) are one in-flight     *)
(* period: the code reads and writes nothing between them, so a cycle is   *)
(* an issue step and a completion step with the outcome as its input.      *)
(***************************************************************************)
EXTENDS Integers, Sequences, FiniteSets, TLC

\* ------------------------------------------------------------ bounds
\* fetches of one kind that may be in flight at once
MaxInFlight == 1
\* motor merges followed (cap of motorUpdateKey)
MaxKey == 2
\* consecutive worker failures followed (cap of consecutiveErrors)
MaxErrors == 4
\* worker -> main messages posted and not yet delivered
MaxOutbox == 1
\* worker poll chains (fetches in flight and timers set) commands may build up
MaxChains == 2
\* consecutive fallback failures counted (cap of fallbackStreak)
MaxStreak == 3
\* tracked fields of one robot's motor record that carry a value at once
MaxFieldsSet == 2
\* fallback motor fetches followed by their number, and those in flight together
MaxIssued == 3
MaxFlights == 2
\* requests of the control panel followed
MaxRequests == 2

\* RobotControlComponent: commandHistory keeps the 10 newest commands
HISTORY_LIMIT == 10

\* ------------------------------------------------------------ program constants
POLLING_INTERVAL == 500
MAX_CONSECUTIVE_ERRORS == 3
\* setupMotorDataWorker's general-status period
mainUpdateInterval == 5000
\* the literal period of the fallback poller's setInterval
fallbackInterval == 1000
\* setupMotorDataUpdateRate's periods
rateMainUpdateInterval == 1000
motorUpdateInterval == 50

\* ------------------------------------------------------------ values
Robots == {"r1"}
PingVals == {"none", "up", "down"}
\* a connectivity map: robot -> up/down, "none" where the key is missing
PingMaps == [Robots -> PingVals]
EmptyPing == [r \in Robots |-> "none"]
\* an optional ping_status field of a response
NoPing == [has |-> FALSE, map |-> EmptyPing]
OptPing == {NoPing} \cup {[has |-> TRUE, map |-> m] : m \in PingMaps}
\* status maps and motor maps, "{}" the empty map; "absent" a missing field
StatusVals == {"{}", "A"}
MotorVals == {"{}", "m1"}
OptStatus == {"absent"} \cup StatusVals
OptMotor == {"absent"} \cup MotorVals

\* decoded bodies of GET /api/robot-status
Responses ==
  [ping_status : OptPing, robot_status : OptStatus,
   cleaning_device_status : OptStatus, motor_data : OptMotor]
\* what a type=general body can differ in for its reader (motor_data is not read)
GeneralResponses == {d \in Responses : d.motor_data = "absent"}
\* what a type=motor body can differ in for its readers
MotorResponses ==
  {d \in Responses : d.robot_status = "absent" /\ d.cleaning_device_status = "absent"}

\* failures of a fetch cycle before a body is decoded
FailureKinds == {"NetworkError", "ProtocolError", "DecodeError"}

\* the interval field of a setInterval command: its typeof and its value
\* (a string's value is the number it spells, 0 for the empty string)
Intervals ==
  {[type |-> "number", value |-> 250], [type |-> "number", value |-> 0],
   [type |-> "string", value |-> 250], [type |-> "null", value |-> 0],
   [type |-> "undefined", value |-> 0]}
NoInterval == [type |-> "undefined", value |-> 0]
NoCommand == [command |-> "none", interval |-> NoInterval, wasRunning |-> FALSE]

\* ------------------------------------------------------------ display helpers' values
\* a JavaScript value handed to a display helper. A number is a sign and a
\* magnitude int + frac / 100000 (frac in 0..99999); a string is one that
\* spells no number ("x")
Num(neg, int, frac) == [type |-> "number", neg |-> neg, int |-> int, frac |-> frac]
Undefined == [type |-> "undefined", neg |-> FALSE, int |-> 0, frac |-> 0]
Null == [type |-> "null", neg |-> FALSE, int |-> 0, frac |-> 0]
StringX == [type |-> "string", neg |-> FALSE, int |-> 0, frac |-> 0]
Zero == Num(FALSE, 0, 0)

\* magnitudes around each threshold of the helpers, as <<int, frac>>
Magnitudes ==
  {<<0, 5>>, <<0, 9>>, <<0, 10>>, <<0, 11>>, <<0, 99>>, <<0, 100>>, <<0, 101>>,
   <<0, 999>>, <<0, 1000>>, <<0, 1001>>, <<0, 12345>>, <<0, 99950>>,
   <<5, 0>>, <<5, 1>>, <<1000, 0>>, <<1000, 1>>, <<1500, 40000>>, <<9996, 0>>,
   <<100000, 0>>, <<100000, 1>>, <<200000, 0>>}
Values ==
  {Undefined, Null, StringX, Zero}
    \cup {Num(neg, m[1], m[2]) : neg \in BOOLEAN, m \in Magnitudes}

Sites == {"MotorDataService", "MotorDataComponent", "MotorDetailComponent"}
Kinds == {"current", "velocity", "position", "other"}

\* motorData[robotName]: the tracked fields of motor1 and motor2. A motor that
\* is missing reads as {} (motor1 || {}), every field of it undefined
Fields == {"motor1", "motor2"} \X {"pos_rad", "vel_rpm", "current"}
FieldVals ==
  {Undefined, Null, Zero, Num(FALSE, 0, 9), Num(FALSE, 0, 10), Num(TRUE, 0, 100),
   Num(FALSE, 0, 1000), Num(FALSE, 0, 12345)}
NoReading == [f \in Fields |-> Undefined]
Readings ==
  {r \in [Fields -> FieldVals] :
     Cardinality({f \in Fields : r[f] # Undefined}) <= MaxFieldsSet}

\* a call: the function, the object it is a method of, its arguments
NoCall == [fn |-> "none"]
Calls ==
  {[fn |-> "isZeroValue", site |-> s, value |-> v, kind |-> "other",
    present |-> FALSE, reading |-> NoReading] : s \in Sites, v \in Values}
  \cup
  {[fn |-> "isMotorValueAbnormal", site |-> s, value |-> v, kind |-> k,
    present |-> FALSE, reading |-> NoReading] :
      s \in Sites, v \in Values, k \in Kinds}
  \cup
  {[fn |-> "formatMotorValue", site |-> s, value |-> v, kind |-> "other",
    present |-> FALSE, reading |-> NoReading] : s \in Sites, v \in Values}
  \cup
  {[fn |-> "areAllValuesZero", site |-> s, value |-> Undefined, kind |-> "other",
    present |-> TRUE, reading |-> r] : s \in Sites, r \in Readings}
  \cup
  {[fn |-> "areAllValuesZero", site |-> s, value |-> Undefined, kind |-> "other",
    present |-> FALSE, reading |-> NoReading] : s \in Sites}

\* a returned value: a boolean, or a rendered text and the form it has
NoText == [neg |-> FALSE, lead |-> 0, rest |-> 0, exp |-> 0]
NoResult == [done |-> FALSE]
BoolResult(b) == [done |-> TRUE, bool |-> b, form |-> "boolean", digits |-> 0,
                  text |-> NoText]

\* ------------------------------------------------------------ merge and control panel values
\* the body a completing general fetch decodes, before any is drawn
NoResponse == "none"
\* every snapshot the merges can leave
Snapshots ==
  [pingStatus : PingMaps, robotStatus : StatusVals,
   cleaningDeviceStatus : StatusVals, motorData : MotorVals]

\* methods of RobotControlComponent that call executeCommand: the endpoint,
\* the payload and the requiresConfirmation argument each passes
Methods ==
  {[name |-> "stopRobot", endpoint |-> "stop", payload |-> "{}", confirm |-> TRUE],
   [name |-> "resetEstop", endpoint |-> "reset_soft_estop", payload |-> "{}",
    confirm |-> TRUE],
   [name |-> "navigateToDock", endpoint |-> "navigate_back_to_dock",
    payload |-> "{}", confirm |-> TRUE],
   [name |-> "startDocking", endpoint |-> "docking", payload |-> "dock",
    confirm |-> TRUE],
   [name |-> "emergencyStop", endpoint |-> "manage_goals", payload |-> "exec_code 5",
    confirm |-> TRUE],
   [name |-> "undock", endpoint |-> "docking", payload |-> "undock",
    confirm |-> FALSE],
   [name |-> "pauseRobot", endpoint |-> "pause", payload |-> "{}",
    confirm |-> FALSE]}
\* data().confirmDialog; payload is undefined until a dialog was shown
InitialConfirmDialog == [show |-> FALSE, action |-> "", payload |-> "undefined"]
\* how a POST to /api/robot-control ends
Outcomes == {"ok", "notOk", "threw"}
NoLastCommand == [command |-> "null", success |-> FALSE]

VARIABLES
  setup,             \* "notStarted" | "returned" | "threw": outcome of the driver
                     \* call; "workerOnly": the worker script run on its own;
                     \* "helpersOnly": a display helper called on its own
  driver,            \* "none" | "worker" | "rate": which driver was called
  handle,            \* "none" | "base" | "rate": the cleanup the caller holds
  cleaned,           \* the handle's cleanup() has returned
  mainDataInterval,  \* the repeating general timer is set
  motorInterval,     \* the fallback poller's repeating timer is set
  motorDataInterval, \* setupMotorDataUpdateRate's repeating motor timer is set
  startTimeout,      \* setupMotorDataUpdateRate's 1000 ms delayed start is pending
  worker,            \* main thread's worker reference is non-null
  mainPeriod,        \* period the general timer was set with, 0 before it is set
  motorPeriod,       \* period of the driver's repeating motor timer, 0 if none
  robotData, motorUpdateKey, error, loading, lastUpdate,
  genInFlight,       \* general (or fetchAllData) fetches in flight on the main thread
  motInFlight,       \* motor fetches in flight on the main thread
  fallbackStreak,    \* fallback cycles in a row that merged nothing (history)
  workerState,       \* "none" | "loading" | "running" | "terminated"
  isRunning, pollTimer, pollDelay, orphanTimers, consecutiveErrors,
  wInFlight,         \* pollMotorData invocations awaiting their fetch
  outbox,            \* messages posted by the worker, not yet delivered
  lastCommand,       \* the last command message the worker handled (history)
  call,              \* a call of one of the display helpers: function, site, arguments
  result,            \* what the call returned, once it has
  response,          \* the body the general fetch in flight decodes, where drawn
                     \* at the start
  motorSeq,          \* fallback motor fetches issued so far (history)
  motorFlights,      \* numbers of the fallback motor fetches in flight
  mergedSeq,         \* number of the fetch whose motor_data was merged last
  confirmDialog,     \* RobotControlComponent: this.confirmDialog
  ctlLoading,        \* this.loading
  ctlCalls,          \* executeCommand invocations awaiting their fetch
  httpRequests,      \* POST requests sent to /api/robot-control, oldest first
  ctlLastCommand,    \* this.lastCommand
  commandHistory,    \* this.commandHistory, newest first
  emitted,           \* the last event emitted to the parent
  lastEvent          \* the handler that ran last

mainVars == <<setup, driver, handle, cleaned, mainDataInterval, motorInterval,
              motorDataInterval, startTimeout, worker, mainPeriod, motorPeriod>>
dataVars == <<robotData, motorUpdateKey, error, loading, lastUpdate>>
flightVars == <<genInFlight, motInFlight, fallbackStreak>>
workerVars == <<workerState, isRunning, pollTimer, pollDelay, orphanTimers,
                consecutiveErrors, wInFlight, outbox>>
pureVars == <<call, result>>
orderVars == <<motorSeq, motorFlights, mergedSeq>>
controlVars == <<confirmDialog, ctlLoading, ctlCalls, httpRequests, ctlLastCommand,
                 commandHistory, emitted>>
sideVars == <<pureVars, response, orderVars, controlVars>>
vars == <<mainVars, dataVars, flightVars, workerVars, lastCommand, sideVars, lastEvent>>

\* no fallback fetch numbered yet
OrderVarsInit == motorSeq = 0 /\ motorFlights = {} /\ mergedSeq = 0
\* the control panel as data() returns it
ControlVarsInit ==
  /\ confirmDialog = InitialConfirmDialog /\ ctlLoading = FALSE
  /\ ctlCalls = <<>> /\ httpRequests = <<>>
  /\ ctlLastCommand = NoLastCommand /\ commandHistory = <<>>
  /\ emitted = "none"
\* nothing drawn, nothing numbered, the control panel untouched
ExtrasInit == response = NoResponse /\ OrderVarsInit /\ ControlVarsInit

\* ------------------------------------------------------------ merges (main.js)
Spread(a, b) == [r \in Robots |-> IF b[r] # "none" THEN b[r] ELSE a[r]]

\* mutant: a field the response lacks is emptied
MergeGeneralResetsAbsent(rd, data) ==
  [pingStatus |-> IF data.ping_status.has THEN data.ping_status.map ELSE EmptyPing,
   robotStatus |-> IF data.robot_status # "absent" THEN data.robot_status ELSE "{}",
   cleaningDeviceStatus |-> IF data.cleaning_device_status # "absent"
                            THEN data.cleaning_device_status ELSE "{}",
   motorData |-> rd.motorData]

\* mutant: the general merge writes motorData from its own response, as
\* fetchAllData does
MergeGeneralOverwritesMotor(rd, data) ==
  [pingStatus |-> IF data.ping_status.has THEN data.ping_status.map ELSE rd.pingStatus,
   robotStatus |-> IF data.robot_status # "absent" THEN data.robot_status
                   ELSE rd.robotStatus,
   cleaningDeviceStatus |-> IF data.cleaning_device_status # "absent"
                            THEN data.cleaning_device_status
                            ELSE rd.cleaningDeviceStatus,
   motorData |-> IF data.motor_data # "absent" THEN data.motor_data ELSE "{}"]

\* fetchGeneralData's assignment to robotData.value
MergeGeneral(rd, data) ==
  [pingStatus |-> IF data.ping_status.has THEN data.ping_status.map ELSE rd.pingStatus,
   robotStatus |-> IF data.robot_status # "absent" THEN data.robot_status
                   ELSE rd.robotStatus,
   cleaningDeviceStatus |-> IF data.cleaning_device_status # "absent"
                            THEN data.cleaning_device_status
                            ELSE rd.cleaningDeviceStatus,
   motorData |-> rd.motorData]

\* fetchAllData's assignment to robotData.value
MergeAll(rd, data) ==
  [pingStatus |-> IF data.ping_status.has THEN data.ping_status.map ELSE EmptyPing,
   robotStatus |-> IF data.robot_status # "absent" THEN data.robot_status ELSE "{}",
   cleaningDeviceStatus |-> IF data.cleaning_device_status # "absent"
                            THEN data.cleaning_device_status ELSE "{}",
   motorData |-> IF data.motor_data # "absent" THEN data.motor_data ELSE "{}"]

\* mutant: the listener replaces pingStatus by the message's map
MergeMotorMessageReplacesPing(rd, msg) ==
  [rd EXCEPT !.motorData = msg.motorData, !.pingStatus = msg.pingStatus]

\* the worker listener's motorData case
MergeMotorMessage(rd, msg) ==
  [rd EXCEPT !.motorData = msg.motorData,
             !.pingStatus = Spread(rd.pingStatus, msg.pingStatus)]

\* mutant: a merge that forgets the key
KeyAfterMergeStuck(k) == k

\* motorUpdateKey.value++
KeyAfterMerge(k) == k + 1

\* the fallback callback's and fetchMotorDataOnly's assignment
MergeMotorOnly(rd, data) == [rd EXCEPT !.motorData = data.motor_data]

\* ------------------------------------------------------------ worker helpers
\* mutant: backoff one failure early
NextIntervalOffByOne(errs) ==
  IF errs >= MAX_CONSECUTIVE_ERRORS THEN POLLING_INTERVAL * 2 ELSE POLLING_INTERVAL

\* mutant: a delay that grows with the failures
NextIntervalGrows(errs) ==
  IF errs > MAX_CONSECUTIVE_ERRORS THEN POLLING_INTERVAL * errs ELSE POLLING_INTERVAL

\* lines 142-144: the delay of the next poll
NextInterval(errs) ==
  IF errs > MAX_CONSECUTIVE_ERRORS THEN POLLING_INTERVAL * 2 ELSE POLLING_INTERVAL

\* mutant: a failure that is not counted
ErrorsAfterFailureUncounted(errs) == errs

\* consecutiveErrors++
ErrorsAfterFailure(errs) == errs + 1

ErrorsAfterSuccess(errs) == 0

ErrorText(kind) ==
  CASE kind = "NetworkError" -> "Failed to fetch"
    [] kind = "ProtocolError" -> "Server responded with status"
    [] kind = "DecodeError" -> "Unexpected token"
    [] OTHER -> "Motor data missing in response"

\* mutant: a message stamped when it is posted
MotorDataMessageStampedAtPost(data) ==
  [type |-> "motorData", motorData |-> data.motor_data,
   pingStatus |-> IF data.ping_status.has THEN data.ping_status.map ELSE EmptyPing,
   timestamp |-> "posted"]

\* the message of lines 113-120; its timestamp is the Date.now() of line 57,
\* read before the fetch is issued
MotorDataMessage(data) ==
  [type |-> "motorData", motorData |-> data.motor_data,
   pingStatus |-> IF data.ping_status.has THEN data.ping_status.map ELSE EmptyPing,
   timestamp |-> "issued"]

ErrorMessage(kind) == [type |-> "error", error |-> ErrorText(kind)]

InitialRobotData ==
  [pingStatus |-> EmptyPing, robotStatus |-> "{}",
   cleaningDeviceStatus |-> "{}", motorData |-> "{}"]

Init ==
  /\ setup = "notStarted" /\ driver = "none" /\ handle = "none" /\ cleaned = FALSE
  /\ mainDataInterval = FALSE /\ motorInterval = FALSE
  /\ motorDataInterval = FALSE /\ startTimeout = FALSE /\ worker = FALSE
  /\ mainPeriod = 0 /\ motorPeriod = 0
  /\ robotData = InitialRobotData /\ motorUpdateKey = 0
  /\ error = "null" /\ loading = TRUE /\ lastUpdate = "initial"
  /\ genInFlight = 0 /\ motInFlight = 0 /\ fallbackStreak = 0
  /\ workerState = "none" /\ isRunning = TRUE /\ pollTimer = "null" /\ pollDelay = 0
  /\ orphanTimers = 0 /\ consecutiveErrors = 0 /\ wInFlight = 0 /\ outbox = <<>>
  /\ lastCommand = NoCommand
  /\ call = NoCall /\ result = NoResult
  /\ ExtrasInit
  /\ lastEvent = "init"


\* ------------------------------------------------------------ setupMotorDataWorker
\* initWorker() is called on line 363, before `let cleanup` is initialized on
\* line 366: the binding a closure reads during initWorker is uninitialized
CleanupBindingAtInitWorker == "uninitialized"

\* mutant: a fallback timer set with the configured motor interval
SetupFallbackPollingConfigured(binding) ==
  [motorInterval |-> TRUE, period |-> motorUpdateInterval,
   threw |-> (binding = "uninitialized")]

\* setInterval on line 330 runs, then line 349 reads `cleanup`: a read of an
\* uninitialized let binding throws a ReferenceError
SetupFallbackPolling(binding) ==
  [motorInterval |-> TRUE, period |-> fallbackInterval,
   threw |-> (binding = "uninitialized")]

\* mutant: the fallback timer is set whether or not the worker was created
InitWorkerAlsoFallback(workerThrows, binding) ==
  IF workerThrows
  THEN [worker |-> FALSE,
        motorInterval |-> SetupFallbackPolling(binding).motorInterval,
        motorPeriod |-> SetupFallbackPolling(binding).period,
        threw |-> SetupFallbackPolling(binding).threw]
  ELSE [worker |-> TRUE, motorInterval |-> TRUE,
        motorPeriod |-> SetupFallbackPolling(binding).period, threw |-> FALSE]

\* try { new Worker(...) } catch { setupFallbackPolling() }: an exception thrown
\* inside the catch block leaves initWorker
InitWorker(workerThrows, binding) ==
  IF workerThrows
  THEN [worker |-> FALSE,
        motorInterval |-> SetupFallbackPolling(binding).motorInterval,
        motorPeriod |-> SetupFallbackPolling(binding).period,
        threw |-> SetupFallbackPolling(binding).threw]
  ELSE [worker |-> TRUE, motorInterval |-> FALSE, motorPeriod |-> 0, threw |-> FALSE]

\* mutant: a call of fetchGeneralData that issues two requests
FetchGeneralDataTwice(n) == n + 2

\* fetchGeneralData up to its first await: one more general fetch in flight
FetchGeneralData(n) == n + 1

SetupMotorDataWorker ==
  /\ setup = "notStarted"
  /\ \E workerThrows \in BOOLEAN :
       LET iw == InitWorker(workerThrows, CleanupBindingAtInitWorker) IN
       /\ worker' = iw.worker
       /\ workerState' = IF iw.worker THEN "loading" ELSE "none"
       /\ motorInterval' = iw.motorInterval
       /\ motorPeriod' = iw.motorPeriod
       /\ setup' = IF iw.threw THEN "threw" ELSE "returned"
       /\ handle' = IF iw.threw THEN "none" ELSE "base"
  /\ driver' = "worker"
  /\ motorUpdateKey' = 0
  /\ genInFlight' = FetchGeneralData(genInFlight)
  /\ mainDataInterval' = TRUE
  /\ mainPeriod' = mainUpdateInterval
  /\ lastEvent' = "setupMotorDataWorker"
  /\ UNCHANGED <<cleaned, motorDataInterval, startTimeout, robotData, error, loading,
                 lastUpdate, motInFlight, fallbackStreak, isRunning, pollTimer,
                 pollDelay, orphanTimers, consecutiveErrors, wInFlight, outbox,
                 lastCommand>>
  /\ UNCHANGED sideVars

\* a tick of setInterval(fetchGeneralData, mainUpdateInterval)
GeneralTick ==
  /\ driver = "worker" /\ mainDataInterval
  /\ genInFlight < MaxInFlight
  /\ genInFlight' = FetchGeneralData(genInFlight)
  /\ lastEvent' = "generalTick"
  /\ UNCHANGED <<mainVars, dataVars, motInFlight, fallbackStreak, workerVars,
                 lastCommand>>
  /\ UNCHANGED sideVars

\* mutant: the catch branch leaves the error state empty
GeneralErrorTextNull(kind) == "null"

\* error.value = `Failed to load data: ${err.message}`, the same prefix for each
\* kind of failure; the message's tail is not followed
GeneralErrorText(kind) == "Failed to load data"

\* mutant: a success that leaves the error state as it was
GeneralSucceedsKeepsError ==
  /\ driver = "worker" /\ genInFlight > 0
  /\ \E data \in GeneralResponses : robotData' = MergeGeneral(robotData, data)
  /\ lastUpdate' = "stamped"
  /\ loading' = FALSE
  /\ genInFlight' = genInFlight - 1
  /\ lastEvent' = "generalSucceeds"
  /\ UNCHANGED <<mainVars, motorUpdateKey, error, motInFlight, fallbackStreak,
                 workerVars, lastCommand>>
  /\ UNCHANGED sideVars

\* fetchGeneralData after its awaits, try branch, the decoded body given
GeneralSucceedsWith(data) ==
  /\ driver = "worker" /\ genInFlight > 0
  /\ robotData' = MergeGeneral(robotData, data)
  /\ lastUpdate' = "stamped"
  /\ error' = "null"
  /\ loading' = FALSE
  /\ genInFlight' = genInFlight - 1
  /\ lastEvent' = "generalSucceeds"
  /\ UNCHANGED <<mainVars, motorUpdateKey, motInFlight, fallbackStreak, workerVars,
                 lastCommand>>
  /\ UNCHANGED sideVars

\* fetchGeneralData after its awaits, try branch
GeneralSucceeds == \E data \in GeneralResponses : GeneralSucceedsWith(data)

\* mutant: a failed general fetch that empties the snapshot
GeneralFailsClearsData ==
  /\ driver = "worker" /\ genInFlight > 0
  /\ \E kind \in FailureKinds : error' = GeneralErrorText(kind)
  /\ robotData' = InitialRobotData
  /\ loading' = FALSE
  /\ genInFlight' = genInFlight - 1
  /\ lastEvent' = "generalFails"
  /\ UNCHANGED <<mainVars, motorUpdateKey, lastUpdate, motInFlight,
                 fallbackStreak, workerVars, lastCommand>>
  /\ UNCHANGED sideVars

\* fetchGeneralData after its awaits, catch branch
GeneralFails ==
  /\ driver = "worker" /\ genInFlight > 0
  /\ \E kind \in FailureKinds : error' = GeneralErrorText(kind)
  /\ loading' = FALSE
  /\ genInFlight' = genInFlight - 1
  /\ lastEvent' = "generalFails"
  /\ UNCHANGED <<mainVars, robotData, motorUpdateKey, lastUpdate, motInFlight,
                 fallbackStreak, workerVars, lastCommand>>
  /\ UNCHANGED sideVars

\* mutant: cleanup leaves the timer set
ClearIntervalNoop(timer) == timer

\* clearInterval(id): the timer is no longer set
ClearInterval(timer) == FALSE

\* the base cleanup of setupMotorDataWorker. worker.terminate() follows the
\* posted stop command at once: it destroys the worker's context (its timers,
\* its in-flight fetches, its queued commands) and empties the queue of
\* messages the worker posted, whether or not stop was handled first
Cleanup ==
  /\ handle = "base"
  /\ mainDataInterval' = ClearInterval(mainDataInterval)
  /\ IF worker
     THEN /\ worker' = FALSE
          /\ workerState' = "terminated"
          /\ isRunning' = FALSE /\ pollTimer' = "null" /\ pollDelay' = 0
          /\ orphanTimers' = 0 /\ consecutiveErrors' = 0
          /\ wInFlight' = 0 /\ outbox' = <<>>
     ELSE UNCHANGED <<worker, workerVars>>
  /\ cleaned' = TRUE
  /\ lastEvent' = IF cleaned THEN "cleanupAgain" ELSE "cleanup"
  /\ UNCHANGED <<setup, driver, handle, motorInterval, motorDataInterval,
                 startTimeout, mainPeriod, motorPeriod, dataVars, flightVars,
                 lastCommand>>
  /\ UNCHANGED sideVars

\* ------------------------------------------------------------ motorDataWorker.js
\* pollMotorData up to its first await: one more fetch in flight
PollMotorData(n) == n + 1

\* the worker script's top level: startPolling() -> pollMotorData()
WorkerBoot ==
  /\ workerState = "loading"
  /\ workerState' = "running"
  /\ isRunning' = TRUE /\ pollTimer' = "null" /\ consecutiveErrors' = 0
  /\ wInFlight' = PollMotorData(wInFlight)
  /\ lastEvent' = "workerBoot"
  /\ UNCHANGED <<mainVars, dataVars, flightVars, pollDelay, orphanTimers, outbox,
                 lastCommand>>
  /\ UNCHANGED sideVars

\* mutant: a loop that gives up once the failures pass the threshold
RescheduleGivesUp(errs) ==
  IF isRunning /\ errs <= MAX_CONSECUTIVE_ERRORS
  THEN /\ pollTimer' = "pending"
       /\ pollDelay' = NextInterval(errs)
       /\ orphanTimers' = orphanTimers + (IF pollTimer = "pending" THEN 1 ELSE 0)
  ELSE UNCHANGED <<pollTimer, pollDelay, orphanTimers>>

\* lines 139-147: schedule the next poll if still running
Reschedule(errs) ==
  IF isRunning
  THEN /\ pollTimer' = "pending"
       /\ pollDelay' = NextInterval(errs)
       /\ orphanTimers' = orphanTimers + (IF pollTimer = "pending" THEN 1 ELSE 0)
  ELSE UNCHANGED <<pollTimer, pollDelay, orphanTimers>>

\* the timer set on line 146 fires
WorkerTimerFires ==
  /\ workerState = "running" /\ pollTimer = "pending"
  /\ pollTimer' = "stale"
  /\ wInFlight' = PollMotorData(wInFlight)
  /\ lastEvent' = "workerTimerFires"
  /\ UNCHANGED <<mainVars, dataVars, flightVars, workerState, isRunning, pollDelay,
                 orphanTimers, consecutiveErrors, outbox, lastCommand>>
  /\ UNCHANGED sideVars

\* pollMotorData after its awaits, try branch to the end
WorkerCycleSucceeds ==
  /\ workerState = "running" /\ wInFlight > 0
  /\ Len(outbox) < MaxOutbox
  /\ \E data \in {d \in MotorResponses : d.motor_data # "absent"} :
       outbox' = Append(outbox, MotorDataMessage(data))
  /\ consecutiveErrors' = ErrorsAfterSuccess(consecutiveErrors)
  /\ Reschedule(consecutiveErrors')
  /\ wInFlight' = wInFlight - 1
  /\ lastEvent' = "workerCycleSucceeds"
  /\ UNCHANGED <<mainVars, dataVars, flightVars, workerState, isRunning,
                 lastCommand>>
  /\ UNCHANGED sideVars

\* pollMotorData after its awaits, a throw inside try, catch branch to the end
WorkerCycleFails ==
  /\ workerState = "running" /\ wInFlight > 0
  /\ Len(outbox) < MaxOutbox
  /\ consecutiveErrors < MaxErrors
  /\ \E kind \in FailureKinds \cup {"MissingMotorData"} :
       outbox' = Append(outbox, ErrorMessage(kind))
  /\ consecutiveErrors' = ErrorsAfterFailure(consecutiveErrors)
  /\ Reschedule(consecutiveErrors')
  /\ wInFlight' = wInFlight - 1
  /\ lastEvent' = "workerCycleFails"
  /\ UNCHANGED <<mainVars, dataVars, flightVars, workerState, isRunning,
                 lastCommand>>
  /\ UNCHANGED sideVars

\* main thread's listener for the worker's messages
WorkerMessageDelivered ==
  /\ driver = "worker" /\ outbox # <<>>
  /\ LET message == Head(outbox) IN
       IF message.type = "motorData"
       THEN /\ motorUpdateKey < MaxKey
            /\ IF message.motorData # "absent"
               THEN /\ robotData' = MergeMotorMessage(robotData, message)
                    /\ motorUpdateKey' = KeyAfterMerge(motorUpdateKey)
               ELSE UNCHANGED <<robotData, motorUpdateKey>>
            /\ lastEvent' = "workerMotorData"
       ELSE /\ UNCHANGED <<robotData, motorUpdateKey>>
            /\ lastEvent' = "workerError"
  /\ outbox' = Tail(outbox)
  /\ UNCHANGED <<mainVars, error, loading, lastUpdate, flightVars, workerState,
                 isRunning, pollTimer, pollDelay, orphanTimers, consecutiveErrors,
                 wInFlight, lastCommand>>
  /\ UNCHANGED sideVars

\* ------------------------------------------------------------ fallback poller
\* fallback callbacks in a row that ended without a merge, counted up to MaxStreak
StreakAfterFailure(n) == IF n < MaxStreak THEN n + 1 ELSE n

\* a tick of the fallback setInterval(..., 1000): the callback up to its await
FallbackTick ==
  /\ driver = "worker" /\ motorInterval
  /\ motInFlight < MaxInFlight
  /\ motInFlight' = motInFlight + 1
  /\ lastEvent' = "fallbackTick"
  /\ UNCHANGED <<mainVars, dataVars, genInFlight, fallbackStreak, workerVars,
                 lastCommand>>
  /\ UNCHANGED sideVars

\* the fallback callback after its awaits, body decoded
FallbackDecoded ==
  /\ driver = "worker" /\ motInFlight > 0
  /\ \E data \in MotorResponses :
       IF data.motor_data # "absent"
       THEN /\ motorUpdateKey < MaxKey
            /\ robotData' = MergeMotorOnly(robotData, data)
            /\ motorUpdateKey' = KeyAfterMerge(motorUpdateKey)
            /\ fallbackStreak' = 0
            /\ lastEvent' = "fallbackMerge"
       ELSE /\ UNCHANGED <<robotData, motorUpdateKey>>
            /\ fallbackStreak' = StreakAfterFailure(fallbackStreak)
            /\ lastEvent' = "fallbackNoMotorData"
  /\ motInFlight' = motInFlight - 1
  /\ UNCHANGED <<mainVars, error, loading, lastUpdate, genInFlight, workerVars,
                 lastCommand>>
  /\ UNCHANGED sideVars

\* mutant: the fallback's catch sets the visible error as fetchGeneralData does
FallbackFailsSetsError ==
  /\ driver = "worker" /\ motInFlight > 0
  /\ \E kind \in FailureKinds : error' = GeneralErrorText(kind)
  /\ motInFlight' = motInFlight - 1
  /\ fallbackStreak' = StreakAfterFailure(fallbackStreak)
  /\ lastEvent' = "fallbackFails"
  /\ UNCHANGED <<mainVars, robotData, motorUpdateKey, loading, lastUpdate,
                 genInFlight, workerVars, lastCommand>>
  /\ UNCHANGED sideVars

\* the fallback callback after its awaits: fetch or json threw, or !response.ok
FallbackFails ==
  /\ driver = "worker" /\ motInFlight > 0
  /\ \E kind \in FailureKinds : TRUE
  /\ motInFlight' = motInFlight - 1
  /\ fallbackStreak' = StreakAfterFailure(fallbackStreak)
  /\ lastEvent' = "fallbackFails"
  /\ UNCHANGED <<mainVars, dataVars, genInFlight, workerVars, lastCommand>>
  /\ UNCHANGED sideVars

\* ------------------------------------------------------------ setupMotorDataUpdateRate
SetupMotorDataUpdateRate ==
  /\ setup = "notStarted"
  /\ driver' = "rate"
  /\ motorUpdateKey' = 0
  /\ genInFlight' = genInFlight + 1
  /\ mainDataInterval' = TRUE
  /\ mainPeriod' = rateMainUpdateInterval
  /\ startTimeout' = TRUE
  /\ setup' = "returned"
  /\ handle' = "rate"
  /\ lastEvent' = "setupMotorDataUpdateRate"
  /\ UNCHANGED <<cleaned, motorInterval, motorDataInterval, worker, motorPeriod,
                 robotData, error, loading, lastUpdate, motInFlight, fallbackStreak,
                 workerVars, lastCommand>>
  /\ UNCHANGED sideVars

\* a tick of setInterval(fetchAllData, mainUpdateInterval)
FetchAllTick ==
  /\ driver = "rate" /\ mainDataInterval
  /\ genInFlight < MaxInFlight
  /\ genInFlight' = genInFlight + 1
  /\ lastEvent' = "fetchAllTick"
  /\ UNCHANGED <<mainVars, dataVars, motInFlight, fallbackStreak, workerVars,
                 lastCommand>>
  /\ UNCHANGED sideVars

FetchAllSucceeds ==
  /\ driver = "rate" /\ genInFlight > 0
  /\ \E data \in Responses : robotData' = MergeAll(robotData, data)
  /\ lastUpdate' = "stamped"
  /\ error' = "null"
  /\ loading' = FALSE
  /\ genInFlight' = genInFlight - 1
  /\ lastEvent' = "fetchAllSucceeds"
  /\ UNCHANGED <<mainVars, motorUpdateKey, motInFlight, fallbackStreak, workerVars,
                 lastCommand>>
  /\ UNCHANGED sideVars

FetchAllFails ==
  /\ driver = "rate" /\ genInFlight > 0
  /\ \E kind \in FailureKinds : error' = GeneralErrorText(kind)
  /\ loading' = FALSE
  /\ genInFlight' = genInFlight - 1
  /\ lastEvent' = "fetchAllFails"
  /\ UNCHANGED <<mainVars, robotData, motorUpdateKey, lastUpdate, motInFlight,
                 fallbackStreak, workerVars, lastCommand>>
  /\ UNCHANGED sideVars

\* the setTimeout(..., 1000) callback: motorDataInterval = setInterval(...)
StartTimeoutFires ==
  /\ startTimeout
  /\ startTimeout' = FALSE
  /\ motorDataInterval' = TRUE
  /\ motorPeriod' = motorUpdateInterval
  /\ lastEvent' = "startTimeoutFires"
  /\ UNCHANGED <<setup, driver, handle, cleaned, mainDataInterval, motorInterval,
                 worker, mainPeriod, dataVars, flightVars, workerVars, lastCommand>>
  /\ UNCHANGED sideVars

\* a tick of setInterval(fetchMotorDataOnly, motorUpdateInterval)
MotorOnlyTick ==
  /\ driver = "rate" /\ motorDataInterval
  /\ motInFlight < MaxInFlight
  /\ motInFlight' = motInFlight + 1
  /\ lastEvent' = "motorOnlyTick"
  /\ UNCHANGED <<mainVars, dataVars, genInFlight, fallbackStreak, workerVars,
                 lastCommand>>
  /\ UNCHANGED sideVars

\* fetchMotorDataOnly after its awaits, body decoded
MotorOnlyDecoded ==
  /\ driver = "rate" /\ motInFlight > 0
  /\ \E data \in MotorResponses :
       IF data.motor_data # "absent"
       THEN /\ motorUpdateKey < MaxKey
            /\ robotData' = MergeMotorOnly(robotData, data)
            /\ motorUpdateKey' = KeyAfterMerge(motorUpdateKey)
            /\ lastEvent' = "motorOnlyMerge"
       ELSE /\ UNCHANGED <<robotData, motorUpdateKey>>
            /\ lastEvent' = "motorOnlyNoMotorData"
  /\ motInFlight' = motInFlight - 1
  /\ UNCHANGED <<mainVars, error, loading, lastUpdate, genInFlight, fallbackStreak,
                 workerVars, lastCommand>>
  /\ UNCHANGED sideVars

\* fetchMotorDataOnly after its awaits: fetch or json threw, or !response.ok
MotorOnlyFails ==
  /\ driver = "rate" /\ motInFlight > 0
  /\ \E kind \in FailureKinds : TRUE
  /\ motInFlight' = motInFlight - 1
  /\ lastEvent' = "motorOnlyFails"
  /\ UNCHANGED <<mainVars, dataVars, genInFlight, fallbackStreak, workerVars,
                 lastCommand>>
  /\ UNCHANGED sideVars

\* the cleanup returned by setupMotorDataUpdateRate
CleanupRate ==
  /\ handle = "rate"
  /\ mainDataInterval' = ClearInterval(mainDataInterval)
  /\ motorDataInterval' = ClearInterval(motorDataInterval)
  /\ cleaned' = TRUE
  /\ lastEvent' = "cleanupRate"
  /\ UNCHANGED <<setup, driver, handle, motorInterval, startTimeout, worker,
                 mainPeriod, motorPeriod, dataVars, flightVars, workerVars,
                 lastCommand>>
  /\ UNCHANGED sideVars

Next ==
  \/ SetupMotorDataWorker \/ GeneralTick \/ GeneralSucceeds \/ GeneralFails
  \/ Cleanup
  \/ WorkerBoot \/ WorkerTimerFires \/ WorkerCycleSucceeds \/ WorkerCycleFails
  \/ WorkerMessageDelivered
  \/ FallbackTick \/ FallbackDecoded \/ FallbackFails
  \/ SetupMotorDataUpdateRate \/ FetchAllTick \/ FetchAllSucceeds \/ FetchAllFails
  \/ StartTimeoutFires \/ MotorOnlyTick \/ MotorOnlyDecoded \/ MotorOnlyFails
  \/ CleanupRate

Spec == Init /\ [][Next]_vars

\* ------------------------------------------------------------ the worker's commands
\* motorDataWorker.js run on its own: the command messages of lines 14-51 are
\* inputs, the messages it posts are taken by whoever created it. (main.js
\* itself posts only `stop`, and terminates the worker before it is handled.)
WorkerInit ==
  /\ setup = "workerOnly" /\ driver = "none" /\ handle = "none" /\ cleaned = FALSE
  /\ mainDataInterval = FALSE /\ motorInterval = FALSE
  /\ motorDataInterval = FALSE /\ startTimeout = FALSE /\ worker = FALSE
  /\ mainPeriod = 0 /\ motorPeriod = 0
  /\ robotData = InitialRobotData /\ motorUpdateKey = 0
  /\ error = "null" /\ loading = TRUE /\ lastUpdate = "initial"
  /\ genInFlight = 0 /\ motInFlight = 0 /\ fallbackStreak = 0
  /\ workerState = "loading" /\ isRunning = TRUE /\ pollTimer = "null"
  /\ pollDelay = 0
  /\ orphanTimers = 0 /\ consecutiveErrors = 0 /\ wInFlight = 0 /\ outbox = <<>>
  /\ lastCommand = NoCommand
  /\ call = NoCall /\ result = NoResult
  /\ ExtrasInit
  /\ lastEvent = "init"

\* poll chains alive in the worker: fetches awaited and timers that will fire
Chains == wInFlight + orphanTimers + (IF pollTimer = "pending" THEN 1 ELSE 0)

\* clearTimeout(pollTimer): the timer will not fire; the variable keeps the id
ClearTimeout(timer) == IF timer = "pending" THEN "stale" ELSE timer

\* mutant: startPolling that only logs
StartPollingDeferred(n) == n

\* startPolling(): logs, then calls pollMotorData()
StartPolling(n) == PollMotorData(n)

\* a value is truthy unless it is 0, "", null or undefined
Truthy(i) == i.type \in {"number", "string"} /\ i.value # 0

\* mutant: the test without its typeof half
IsValidIntervalTruthyOnly(i) == Truthy(i)

\* line 37: newInterval && typeof newInterval === 'number'
IsValidInterval(i) == Truthy(i) /\ i.type = "number"

\* line 38 assigns to POLLING_INTERVAL, which line 4 declares const: the
\* assignment throws a TypeError and the binding keeps its value
AssignPollingInterval(v) == [threw |-> TRUE, value |-> POLLING_INTERVAL]

\* a timer set on line 146 whose id was overwritten in pollTimer fires
OrphanTimerFires ==
  /\ workerState = "running" /\ orphanTimers > 0
  /\ orphanTimers' = orphanTimers - 1
  /\ wInFlight' = PollMotorData(wInFlight)
  /\ lastEvent' = "orphanTimerFires"
  /\ UNCHANGED <<mainVars, dataVars, flightVars, workerState, isRunning, pollTimer,
                 pollDelay, consecutiveErrors, outbox, lastCommand>>
  /\ UNCHANGED sideVars

\* case 'start'
CmdStart ==
  /\ setup = "workerOnly" /\ workerState = "running"
  /\ Chains < MaxChains
  /\ isRunning' = TRUE
  /\ wInFlight' = StartPolling(wInFlight)
  /\ lastCommand' = [command |-> "start", interval |-> NoInterval,
                     wasRunning |-> isRunning]
  /\ lastEvent' = "cmdStart"
  /\ UNCHANGED <<mainVars, dataVars, flightVars, workerState, pollTimer, pollDelay,
                 orphanTimers, consecutiveErrors, outbox>>
  /\ UNCHANGED sideVars

\* mutant: a stop that flips the flag
RunningAfterStopToggles(r) == ~r

\* line 23: isRunning = false
RunningAfterStop(r) == FALSE

\* case 'stop'
CmdStop ==
  /\ setup = "workerOnly" /\ workerState = "running"
  /\ isRunning' = RunningAfterStop(isRunning)
  /\ pollTimer' = ClearTimeout(pollTimer)
  /\ lastCommand' = [command |-> "stop", interval |-> NoInterval,
                     wasRunning |-> isRunning]
  /\ lastEvent' = "cmdStop"
  /\ UNCHANGED <<mainVars, dataVars, flightVars, workerState, pollDelay,
                 orphanTimers, consecutiveErrors, wInFlight, outbox>>
  /\ UNCHANGED sideVars

\* case 'poll'
CmdPoll ==
  /\ setup = "workerOnly" /\ workerState = "running"
  /\ wInFlight + orphanTimers < MaxChains
  /\ pollTimer' = ClearTimeout(pollTimer)
  /\ wInFlight' = PollMotorData(wInFlight)
  /\ lastCommand' = [command |-> "poll", interval |-> NoInterval,
                     wasRunning |-> isRunning]
  /\ lastEvent' = "cmdPoll"
  /\ UNCHANGED <<mainVars, dataVars, flightVars, workerState, isRunning, pollDelay,
                 orphanTimers, consecutiveErrors, outbox>>
  /\ UNCHANGED sideVars

\* case 'setInterval'
CmdSetInterval ==
  /\ setup = "workerOnly" /\ workerState = "running"
  /\ \E i \in Intervals :
       /\ lastCommand' = [command |-> "setInterval", interval |-> i,
                          wasRunning |-> isRunning]
       /\ IF IsValidInterval(i)
          THEN IF AssignPollingInterval(i.value).threw
               THEN /\ lastEvent' = "cmdSetIntervalThrew"
                    /\ UNCHANGED <<pollTimer, wInFlight>>
               ELSE /\ lastEvent' = "cmdSetIntervalApplied"
                    /\ IF isRunning
                       THEN /\ pollTimer' = ClearTimeout(pollTimer)
                            /\ wInFlight' = StartPolling(wInFlight)
                       ELSE UNCHANGED <<pollTimer, wInFlight>>
          ELSE /\ lastEvent' = "cmdSetIntervalIgnored"
               /\ UNCHANGED <<pollTimer, wInFlight>>
  /\ UNCHANGED <<mainVars, dataVars, flightVars, workerState, isRunning, pollDelay,
                 orphanTimers, consecutiveErrors, outbox>>
  /\ UNCHANGED sideVars

\* default: console.warn
CmdUnknown ==
  /\ setup = "workerOnly" /\ workerState = "running"
  /\ lastCommand' = [command |-> "other", interval |-> NoInterval,
                     wasRunning |-> isRunning]
  /\ lastEvent' = "cmdUnknown"
  /\ UNCHANGED <<mainVars, dataVars, flightVars, workerVars>>
  /\ UNCHANGED sideVars

\* a message posted on line 114 or 128 leaves the worker's port
MessageTaken ==
  /\ setup = "workerOnly" /\ outbox # <<>>
  /\ outbox' = Tail(outbox)
  /\ lastEvent' = "messageTaken"
  /\ UNCHANGED <<mainVars, dataVars, flightVars, workerState, isRunning, pollTimer,
                 pollDelay, orphanTimers, consecutiveErrors, wInFlight, lastCommand>>
  /\ UNCHANGED sideVars

WorkerNext ==
  \/ WorkerBoot \/ WorkerTimerFires \/ OrphanTimerFires
  \/ WorkerCycleSucceeds \/ WorkerCycleFails \/ MessageTaken
  \/ CmdStart \/ CmdStop \/ CmdPoll \/ CmdSetInterval \/ CmdUnknown

WorkerSpec == WorkerInit /\ [][WorkerNext]_vars

\* a timer set with setTimeout and not cleared fires
WorkerLiveSpec ==
  WorkerInit /\ [][WorkerNext]_vars
  /\ WF_vars(WorkerTimerFires) /\ WF_vars(OrphanTimerFires)

\* the page with a driver, and the worker script on its own, side by side
BothInit == Init \/ WorkerInit
BothNext == Next \/ WorkerNext
StopSpec == BothInit /\ [][BothNext]_vars

\* ------------------------------------------------------------ display helpers
\* Math.abs(value) compared with a threshold t = <<int, frac>>. Math.abs of a
\* string that spells no number is NaN, and every comparison with NaN is false
AbsLess(v, t) ==
  v.type = "number" /\ (v.int < t[1] \/ (v.int = t[1] /\ v.frac < t[2]))
AbsGreater(v, t) ==
  v.type = "number" /\ (v.int > t[1] \/ (v.int = t[1] /\ v.frac > t[2]))
AbsAtLeast(v, t) == v.type = "number" /\ ~AbsLess(v, t)
\* value > t, signed
Greater(v, t) == ~v.neg /\ AbsGreater(v, t)
\* value === undefined || value === null
IsAbsent(v) == v.type \in {"undefined", "null"}
\* a value in a condition: 0, null and undefined are falsy
IsTruthy(v) ==
  v.type = "string" \/ (v.type = "number" /\ (v.int # 0 \/ v.frac # 0))

\* mutant: a threshold that counts as zero
IsZeroValueServiceInclusive(v) == IsAbsent(v) \/ ~AbsGreater(v, <<0, 10>>)

\* MotorDataService.isZeroValue (the last of its three identical definitions)
IsZeroValueService(v) == IsAbsent(v) \/ AbsLess(v, <<0, 10>>)
\* MotorDataComponent.isZeroValue
IsZeroValueComponent(v) == IsAbsent(v) \/ AbsLess(v, <<0, 100>>)
\* MotorDetailComponent.isZeroValue
IsZeroValueDetail(v) == IsAbsent(v) \/ AbsLess(v, <<0, 1000>>)

IsZeroValue(site, v) ==
  CASE site = "MotorDataService" -> IsZeroValueService(v)
    [] site = "MotorDataComponent" -> IsZeroValueComponent(v)
    [] OTHER -> IsZeroValueDetail(v)

\* MotorDataService.areAllValuesZero
AreAllValuesZeroService(present, r) ==
  IF ~present THEN TRUE
  ELSE ~(\E f \in Fields : IsTruthy(r[f]) /\ AbsAtLeast(r[f], <<0, 10>>))
\* MotorDataComponent.hasNonZeroValues, as its use in v-if reads it
HasNonZeroValuesComponent(present, r) ==
  IF ~present THEN FALSE
  ELSE \E f \in Fields : IsTruthy(r[f]) /\ AbsGreater(r[f], <<0, 100>>)
\* MotorDetailComponent.areAllValuesZero
AreAllValuesZeroDetail(present, r) ==
  IF ~present THEN TRUE
  ELSE \A f \in Fields : ~IsTruthy(r[f]) \/ AbsLess(r[f], <<0, 1000>>)

\* the all-channels-zero check of each site
AreAllValuesZero(site, present, r) ==
  CASE site = "MotorDataService" -> AreAllValuesZeroService(present, r)
    [] site = "MotorDataComponent" -> ~HasNonZeroValuesComponent(present, r)
    [] OTHER -> AreAllValuesZeroDetail(present, r)

\* MotorDataService.isMotorValueAbnormal
IsMotorValueAbnormalService(v, kind) ==
  IF IsAbsent(v) THEN FALSE
  ELSE CASE kind = "current" -> Greater(v, <<5, 0>>)
         [] kind = "velocity" -> AbsGreater(v, <<1000, 0>>)
         [] kind = "position" -> AbsGreater(v, <<100000, 0>>)
         [] OTHER -> FALSE
\* MotorDataComponent.isMotorValueAbnormal
IsMotorValueAbnormalComponent(v, kind) ==
  IF IsAbsent(v) THEN FALSE
  ELSE CASE kind = "current" -> Greater(v, <<5, 0>>)
         [] kind = "velocity" -> AbsGreater(v, <<1000, 0>>)
         [] kind = "position" -> AbsGreater(v, <<100000, 0>>)
         [] OTHER -> FALSE
\* MotorDetailComponent.isMotorValueAbnormal: no case for position
IsMotorValueAbnormalDetail(v, kind) ==
  IF IsAbsent(v) THEN FALSE
  ELSE CASE kind = "current" -> Greater(v, <<5, 0>>)
         [] kind = "velocity" -> AbsGreater(v, <<1000, 0>>)
         [] OTHER -> FALSE

IsMotorValueAbnormal(site, v, kind) ==
  CASE site = "MotorDataService" -> IsMotorValueAbnormalService(v, kind)
    [] site = "MotorDataComponent" -> IsMotorValueAbnormalComponent(v, kind)
    [] OTHER -> IsMotorValueAbnormalDetail(v, kind)

RECURSIVE Pow10(_)
Pow10(n) == IF n = 0 THEN 1 ELSE 10 * Pow10(n - 1)
\* decimal digits of n >= 1
RECURSIVE DigitCount(_)
DigitCount(n) == IF n < 10 THEN 1 ELSE 1 + DigitCount(n \div 10)

\* value.toFixed(digits), digits <= 5: the magnitude rounded to that many
\* fractional digits, half away from zero, the sign kept
ToFixed(v, digits) ==
  LET unit == Pow10(5 - digits)
      n == (v.frac \div unit) + (IF 2 * (v.frac % unit) >= unit THEN 1 ELSE 0)
      carry == n = Pow10(digits)
  IN [done |-> TRUE, bool |-> FALSE, form |-> "fixed", digits |-> digits,
      text |-> [neg |-> v.neg, lead |-> IF carry THEN v.int + 1 ELSE v.int,
                rest |-> IF carry THEN 0 ELSE n, exp |-> 0]]

\* value.toExponential(2) of a magnitude of 1000 or more: d.dd e+x
ToExponential2(v) ==
  LET e == DigitCount(v.int) - 1
      p == Pow10(e - 2)
      m == (v.int \div p) + (IF 2 * (v.int % p) >= p THEN 1 ELSE 0)
      carry == m = 1000
      mm == IF carry THEN 100 ELSE m
  IN [done |-> TRUE, bool |-> FALSE, form |-> "exponential", digits |-> 2,
      text |-> [neg |-> v.neg, lead |-> mm \div 100, rest |-> mm % 100,
                exp |-> IF carry THEN e + 1 ELSE e]]

Sentinel(word) == [done |-> TRUE, bool |-> FALSE, form |-> word, digits |-> 0,
                   text |-> NoText]

\* MotorDataService.formatMotorValue
FormatMotorValueService(v) ==
  IF IsAbsent(v) THEN Sentinel("N/A")
  ELSE IF v.type # "number" THEN Sentinel("Invalid")
  ELSE IF AbsGreater(v, <<1000, 0>>) THEN ToExponential2(v)
  ELSE ToFixed(v, 3)
\* MotorDataComponent.formatMotorValue
FormatMotorValueComponent(v) ==
  IF IsAbsent(v) THEN Sentinel("N/A")
  ELSE IF v.type # "number" THEN Sentinel("Invalid")
  ELSE IF AbsGreater(v, <<1000, 0>>) THEN ToExponential2(v)
  ELSE ToFixed(v, 3)
\* MotorDetailComponent.formatMotorValue: toFixed(2) for every number
FormatMotorValueDetail(v) ==
  IF IsAbsent(v) THEN Sentinel("N/A")
  ELSE IF v.type # "number" THEN Sentinel("Invalid")
  ELSE ToFixed(v, 2)

FormatMotorValue(site, v) ==
  CASE site = "MotorDataService" -> FormatMotorValueService(v)
    [] site = "MotorDataComponent" -> FormatMotorValueComponent(v)
    [] OTHER -> FormatMotorValueDetail(v)

\* one call of a helper: the arguments are drawn at the start
PureInit ==
  /\ setup = "helpersOnly" /\ driver = "none" /\ handle = "none" /\ cleaned = FALSE
  /\ mainDataInterval = FALSE /\ motorInterval = FALSE
  /\ motorDataInterval = FALSE /\ startTimeout = FALSE /\ worker = FALSE
  /\ mainPeriod = 0 /\ motorPeriod = 0
  /\ robotData = InitialRobotData /\ motorUpdateKey = 0
  /\ error = "null" /\ loading = TRUE /\ lastUpdate = "initial"
  /\ genInFlight = 0 /\ motInFlight = 0 /\ fallbackStreak = 0
  /\ workerState = "none" /\ isRunning = TRUE /\ pollTimer = "null"
  /\ pollDelay = 0
  /\ orphanTimers = 0 /\ consecutiveErrors = 0 /\ wInFlight = 0 /\ outbox = <<>>
  /\ lastCommand = NoCommand
  /\ call \in Calls /\ result = NoResult
  /\ ExtrasInit
  /\ lastEvent = "init"

IsZeroValueCall ==
  /\ call.fn = "isZeroValue" /\ ~result.done
  /\ result' = BoolResult(IsZeroValue(call.site, call.value))
  /\ lastEvent' = "isZeroValue"
  /\ UNCHANGED <<mainVars, dataVars, flightVars, workerVars, lastCommand, call,
                 response, orderVars, controlVars>>

AreAllValuesZeroCall ==
  /\ call.fn = "areAllValuesZero" /\ ~result.done
  /\ result' = BoolResult(AreAllValuesZero(call.site, call.present, call.reading))
  /\ lastEvent' = "areAllValuesZero"
  /\ UNCHANGED <<mainVars, dataVars, flightVars, workerVars, lastCommand, call,
                 response, orderVars, controlVars>>

IsMotorValueAbnormalCall ==
  /\ call.fn = "isMotorValueAbnormal" /\ ~result.done
  /\ result' = BoolResult(IsMotorValueAbnormal(call.site, call.value, call.kind))
  /\ lastEvent' = "isMotorValueAbnormal"
  /\ UNCHANGED <<mainVars, dataVars, flightVars, workerVars, lastCommand, call,
                 response, orderVars, controlVars>>

FormatMotorValueCall ==
  /\ call.fn = "formatMotorValue" /\ ~result.done
  /\ result' = FormatMotorValue(call.site, call.value)
  /\ lastEvent' = "formatMotorValue"
  /\ UNCHANGED <<mainVars, dataVars, flightVars, workerVars, lastCommand, call,
                 response, orderVars, controlVars>>

PureNext ==
  \/ IsZeroValueCall \/ AreAllValuesZeroCall \/ IsMotorValueAbnormalCall
  \/ FormatMotorValueCall

PureSpec == PureInit /\ [][PureNext]_vars


\* ------------------------------------------------------------ one general merge
\* setupMotorDataWorker has returned with its worker running, some merges
\* have been made, and a general fetch is in flight whose body is drawn here
MergeInit ==
  /\ setup = "returned" /\ driver = "worker" /\ handle = "base" /\ cleaned = FALSE
  /\ mainDataInterval = TRUE /\ motorInterval = FALSE
  /\ motorDataInterval = FALSE /\ startTimeout = FALSE /\ worker = TRUE
  /\ mainPeriod = mainUpdateInterval /\ motorPeriod = 0
  /\ robotData \in Snapshots
  /\ motorUpdateKey = (IF robotData.motorData = InitialRobotData.motorData THEN 0 ELSE 1)
  /\ error = "null" /\ loading = FALSE /\ lastUpdate = "stamped"
  /\ genInFlight = 1 /\ motInFlight = 0 /\ fallbackStreak = 0
  /\ workerState = "running" /\ isRunning = TRUE /\ pollTimer = "pending"
  /\ pollDelay = POLLING_INTERVAL
  /\ orphanTimers = 0 /\ consecutiveErrors = 0 /\ wInFlight = 0 /\ outbox = <<>>
  /\ lastCommand = NoCommand
  /\ call = NoCall /\ result = NoResult
  /\ response \in GeneralResponses
  /\ OrderVarsInit /\ ControlVarsInit
  /\ lastEvent = "init"

\* the fetch in flight completes with the body drawn
GeneralSucceedsDrawn == GeneralSucceedsWith(response)

MergeNext == GeneralSucceedsDrawn \/ GeneralFails

MergeSpec == MergeInit /\ [][MergeNext]_vars

\* ------------------------------------------------------------ fallback fetches, numbered
\* new Worker has thrown: the fallback timer and the general timer are set,
\* the initial general fetch is in flight, and the caller has no handle
OrderInit ==
  /\ setup = "threw" /\ driver = "worker" /\ handle = "none" /\ cleaned = FALSE
  /\ mainDataInterval = TRUE /\ motorInterval = TRUE
  /\ motorDataInterval = FALSE /\ startTimeout = FALSE /\ worker = FALSE
  /\ mainPeriod = mainUpdateInterval /\ motorPeriod = fallbackInterval
  /\ robotData = InitialRobotData /\ motorUpdateKey = 0
  /\ error = "null" /\ loading = TRUE /\ lastUpdate = "initial"
  /\ genInFlight = 1 /\ motInFlight = 0 /\ fallbackStreak = 0
  /\ workerState = "none" /\ isRunning = TRUE /\ pollTimer = "null"
  /\ pollDelay = 0
  /\ orphanTimers = 0 /\ consecutiveErrors = 0 /\ wInFlight = 0 /\ outbox = <<>>
  /\ lastCommand = NoCommand
  /\ call = NoCall /\ result = NoResult
  /\ ExtrasInit
  /\ lastEvent = "setupMotorDataWorker"

\* a tick of the fallback setInterval(..., 1000): the callback up to its
\* await; nothing in it waits for the fetch of an earlier tick
FallbackTickNumbered ==
  /\ driver = "worker" /\ motorInterval
  /\ motorSeq < MaxIssued /\ Cardinality(motorFlights) < MaxFlights
  /\ motorSeq' = motorSeq + 1
  /\ motorFlights' = motorFlights \cup {motorSeq + 1}
  /\ motInFlight' = motInFlight + 1
  /\ lastEvent' = "fallbackTick"
  /\ UNCHANGED <<mainVars, dataVars, genInFlight, fallbackStreak, workerVars,
                 lastCommand, mergedSeq, pureVars, response, controlVars>>

\* the fallback callback after its awaits, body decoded: the response of any
\* fetch in flight may be the one that arrives
FallbackDecodedNumbered ==
  /\ driver = "worker"
  /\ \E n \in motorFlights, data \in MotorResponses :
       /\ IF data.motor_data # "absent"
          THEN /\ motorUpdateKey < MaxKey
               /\ robotData' = MergeMotorOnly(robotData, data)
               /\ motorUpdateKey' = KeyAfterMerge(motorUpdateKey)
               /\ fallbackStreak' = 0
               /\ mergedSeq' = n
               /\ lastEvent' = "fallbackMerge"
          ELSE /\ UNCHANGED <<robotData, motorUpdateKey, mergedSeq>>
               /\ fallbackStreak' = StreakAfterFailure(fallbackStreak)
               /\ lastEvent' = "fallbackNoMotorData"
       /\ motorFlights' = motorFlights \ {n}
  /\ motInFlight' = motInFlight - 1
  /\ UNCHANGED <<mainVars, error, loading, lastUpdate, genInFlight, workerVars,
                 lastCommand, motorSeq, pureVars, response, controlVars>>

\* the fallback callback after its awaits: fetch or json threw, or !response.ok
FallbackFailsNumbered ==
  /\ driver = "worker"
  /\ \E n \in motorFlights, kind \in FailureKinds :
       motorFlights' = motorFlights \ {n}
  /\ motInFlight' = motInFlight - 1
  /\ fallbackStreak' = StreakAfterFailure(fallbackStreak)
  /\ lastEvent' = "fallbackFails"
  /\ UNCHANGED <<mainVars, dataVars, genInFlight, workerVars, lastCommand,
                 motorSeq, mergedSeq, pureVars, response, controlVars>>

OrderNext ==
  \/ FallbackTickNumbered \/ FallbackDecodedNumbered \/ FallbackFailsNumbered
  \/ GeneralTick \/ GeneralSucceeds \/ GeneralFails

OrderSpec == OrderInit /\ [][OrderNext]_vars

\* ------------------------------------------------------------ RobotControlComponent
ControlInit ==
  /\ setup = "controlOnly" /\ driver = "none" /\ handle = "none" /\ cleaned = FALSE
  /\ mainDataInterval = FALSE /\ motorInterval = FALSE
  /\ motorDataInterval = FALSE /\ startTimeout = FALSE /\ worker = FALSE
  /\ mainPeriod = 0 /\ motorPeriod = 0
  /\ robotData = InitialRobotData /\ motorUpdateKey = 0
  /\ error = "null" /\ loading = TRUE /\ lastUpdate = "initial"
  /\ genInFlight = 0 /\ motInFlight = 0 /\ fallbackStreak = 0
  /\ workerState = "none" /\ isRunning = TRUE /\ pollTimer = "null"
  /\ pollDelay = 0
  /\ orphanTimers = 0 /\ consecutiveErrors = 0 /\ wInFlight = 0 /\ outbox = <<>>
  /\ lastCommand = NoCommand
  /\ call = NoCall /\ result = NoResult
  /\ ExtrasInit
  /\ lastEvent = "init"

\* showConfirmDialog: the dialog shown for the endpoint, the payload kept
ShowConfirmDialog(endpoint, payload) ==
  [show |-> TRUE, action |-> endpoint, payload |-> payload]

\* payload = {}: the default applies to an argument that is undefined
DefaultPayload(payload) == IF payload = "undefined" THEN "{}" ELSE payload

\* fetch(`/api/robot-control/${endpoint}`, {method: 'POST', body: ...})
Request(endpoint, payload) == [endpoint |-> endpoint, payload |-> payload]

\* mutant: the request is sent whatever requiresConfirmation says
ExecuteCommandSkipsConfirmation(endpoint, payload, requiresConfirmation, caller) ==
  /\ Len(httpRequests) < MaxRequests
  /\ ctlLoading' = TRUE
  /\ httpRequests' = Append(httpRequests, Request(endpoint, DefaultPayload(payload)))
  /\ ctlCalls' = Append(ctlCalls, [endpoint |-> endpoint, caller |-> caller])
  /\ UNCHANGED confirmDialog

\* executeCommand up to its return or its first await; caller is the method
\* that awaits it
ExecuteCommand(endpoint, payload, requiresConfirmation, caller) ==
  IF requiresConfirmation
  THEN /\ confirmDialog' = ShowConfirmDialog(endpoint, DefaultPayload(payload))
       /\ UNCHANGED <<ctlLoading, ctlCalls, httpRequests>>
  ELSE /\ Len(httpRequests) < MaxRequests
       /\ ctlLoading' = TRUE
       /\ httpRequests' =
            Append(httpRequests, Request(endpoint, DefaultPayload(payload)))
       /\ ctlCalls' = Append(ctlCalls, [endpoint |-> endpoint, caller |-> caller])
       /\ UNCHANGED confirmDialog

\* stopRobot, resetEstop, navigateToDock, startDocking, emergencyStop, undock,
\* pauseRobot: each awaits one executeCommand
MethodCalled ==
  /\ setup = "controlOnly"
  /\ \E m \in Methods :
       /\ ExecuteCommand(m.endpoint, m.payload, m.confirm, m.name)
       /\ lastEvent' = m.name
  /\ UNCHANGED <<ctlLastCommand, commandHistory, emitted>>
  /\ UNCHANGED <<mainVars, dataVars, flightVars, workerVars, lastCommand,
                 pureVars, response, orderVars>>

\* confirmAction up to its await
ConfirmAction ==
  /\ setup = "controlOnly"
  /\ ExecuteCommand(confirmDialog.action, confirmDialog.payload, FALSE,
                    "confirmAction")
  /\ lastEvent' = "confirmAction"
  /\ UNCHANGED <<ctlLastCommand, commandHistory, emitted>>
  /\ UNCHANGED <<mainVars, dataVars, flightVars, workerVars, lastCommand,
                 pureVars, response, orderVars>>

CancelAction ==
  /\ setup = "controlOnly"
  /\ confirmDialog' = [confirmDialog EXCEPT !.show = FALSE]
  /\ lastEvent' = "cancelAction"
  /\ UNCHANGED <<ctlLoading, ctlCalls, httpRequests, ctlLastCommand,
                 commandHistory, emitted>>
  /\ UNCHANGED <<mainVars, dataVars, flightVars, workerVars, lastCommand,
                 pureVars, response, orderVars>>

\* this.commandHistory.unshift(this.lastCommand), cut to the 10 newest
Unshift(history, entry) ==
  LET h == <<entry>> \o history
  IN IF Len(h) > HISTORY_LIMIT THEN SubSeq(h, 1, HISTORY_LIMIT) ELSE h

\* executeCommand after its awaits, and the rest of the method that awaited
\* it: confirmAction then closes the dialog
CommandCompletes ==
  /\ setup = "controlOnly"
  /\ \E i \in 1..Len(ctlCalls), outcome \in Outcomes :
       LET c == ctlCalls[i]
           entry == [command |-> c.endpoint, success |-> outcome = "ok"]
       IN /\ IF outcome = "threw"
             THEN /\ emitted' = "command-error"
                  /\ UNCHANGED <<ctlLastCommand, commandHistory>>
             ELSE /\ ctlLastCommand' = entry
                  /\ commandHistory' = Unshift(commandHistory, entry)
                  /\ emitted' = IF outcome = "ok" THEN "command-success"
                                ELSE "command-error"
          /\ ctlCalls' = SubSeq(ctlCalls, 1, i - 1)
                           \o SubSeq(ctlCalls, i + 1, Len(ctlCalls))
          /\ confirmDialog' = IF c.caller = "confirmAction"
                              THEN [confirmDialog EXCEPT !.show = FALSE]
                              ELSE confirmDialog
  /\ ctlLoading' = FALSE
  /\ lastEvent' = "commandCompletes"
  /\ UNCHANGED httpRequests
  /\ UNCHANGED <<mainVars, dataVars, flightVars, workerVars, lastCommand,
                 pureVars, response, orderVars>>

ControlNext == MethodCalled \/ ConfirmAction \/ CancelAction \/ CommandCompletes

ControlSpec == ControlInit /\ [][ControlNext]_vars


\* ------------------------------------------------------------ claims
MotorMergeEvents == {"workerMotorData", "fallbackMerge", "motorOnlyMerge"}
MotorFailureEvents ==
  {"workerError", "workerCycleFails", "fallbackFails", "fallbackNoMotorData",
   "motorOnlyFails", "motorOnlyNoMotorData"}

\* C1: with the worker created, once cleanup() has returned the general timer
\* is cleared, the worker is terminated, and no step issues a general-status
\* fetch or a worker fetch.
C1_NoFetchAfterCleanup ==
  [][(cleaned /\ driver = "worker") =>
       /\ ~mainDataInterval /\ ~worker /\ workerState = "terminated"
       /\ genInFlight' <= genInFlight
       /\ wInFlight' <= wInFlight
       /\ lastEvent' \notin {"generalTick", "workerBoot", "workerTimerFires"}]_vars

\* a general-status fetch in flight at cleanup() completes after it
C1_Witness ==
  cleaned /\ driver = "worker" /\ workerState = "terminated"
  /\ lastEvent = "generalSucceeds"

\* C2: if new Worker throws, setupMotorDataWorker returns a handle normally
\* and the fallback poller is active.
C2_WorkerFailureFallsBack ==
  (driver = "worker" /\ workerState = "none") =>
    (setup = "returned" /\ handle # "none" /\ motorInterval)

\* C3: with the fallback poller active, the caller holds a cleanup, and once
\* that cleanup has returned the fallback timer is cleared.
C3_CleanupClearsFallbackTimer ==
  (driver = "worker" /\ workerState = "none") =>
    (handle # "none" /\ (cleaned => ~motorInterval))

\* C4: motorUpdateKey starts at 0, never decreases, grows by exactly 1 on each
\* motor merge, and is unchanged by a failed motor fetch or a worker error
\* message.
C4_UpdateKeyCountsMerges ==
  /\ motorUpdateKey = 0
  /\ [][/\ motorUpdateKey' >= motorUpdateKey
        /\ lastEvent' \in MotorMergeEvents =>
             /\ motorUpdateKey' = motorUpdateKey + 1
             /\ robotData'.motorData \in MotorVals
        /\ lastEvent' \in MotorFailureEvents => motorUpdateKey' = motorUpdateKey]_vars

C4_Witness == lastEvent = "workerMotorData" /\ motorUpdateKey = 2

\* C5: a successful general-status merge leaves robotData.motorData as the
\* motor merges left it and leaves motorUpdateKey unchanged.
C5_GeneralMergeKeepsMotorData ==
  [][lastEvent' = "generalSucceeds" =>
       /\ robotData'.motorData = robotData.motorData
       /\ motorUpdateKey' = motorUpdateKey]_vars

C5_Witness ==
  lastEvent = "generalSucceeds" /\ robotData.motorData = "m1"
  /\ motorUpdateKey = 2 /\ robotData.robotStatus = "A"

\* C6 as stated: a worker motorData merge leaves pingStatus, robotStatus and
\* cleaningDeviceStatus as they were.
C6_MotorMergeChangesOnlyMotorData ==
  [][lastEvent' = "workerMotorData" =>
       /\ robotData'.pingStatus = robotData.pingStatus
       /\ robotData'.robotStatus = robotData.robotStatus
       /\ robotData'.cleaningDeviceStatus = robotData.cleaningDeviceStatus]_vars

\* C6 amended: a worker motorData merge sets motorData to the message's,
\* overlays the message's pingStatus entries on the previous pingStatus (keys
\* the message lacks keep their value), increments the key, and leaves
\* robotStatus and cleaningDeviceStatus as they were.
C6_MotorMergeOverlaysPing ==
  [][lastEvent' = "workerMotorData" =>
       /\ robotData'.motorData = Head(outbox).motorData
       /\ \A r \in Robots :
            robotData'.pingStatus[r] =
              IF Head(outbox).pingStatus[r] = "none"
              THEN robotData.pingStatus[r]
              ELSE Head(outbox).pingStatus[r]
       /\ robotData'.robotStatus = robotData.robotStatus
       /\ robotData'.cleaningDeviceStatus = robotData.cleaningDeviceStatus
       /\ motorUpdateKey' = motorUpdateKey + 1]_vars

\* a merge whose message carried no ping entry, after a general merge
C6_Witness ==
  lastEvent = "workerMotorData" /\ robotData.pingStatus["r1"] = "down"
  /\ robotData.robotStatus = "A" /\ robotData.motorData = "m1"

\* C7: no motor-only failure on any path changes error.value; a worker error
\* message leaves error.value, robotData and motorUpdateKey unchanged.
C7_MotorFailuresInvisible ==
  [][/\ lastEvent' \in MotorFailureEvents => error' = error
     /\ lastEvent' = "workerError" =>
          /\ robotData' = robotData
          /\ motorUpdateKey' = motorUpdateKey]_vars

\* a worker error message handled while a general-status error is showing
C7_Witness == lastEvent = "workerError" /\ error # "null" /\ motorUpdateKey > 0

\* C8: every failed worker cycle, of any kind, adds exactly 1 to
\* consecutiveErrors; every successful cycle sets it to 0.
C8_ConsecutiveErrorsCount ==
  [][/\ lastEvent' = "workerCycleFails" =>
          consecutiveErrors' = consecutiveErrors + 1
     /\ lastEvent' = "workerCycleSucceeds" => consecutiveErrors' = 0]_vars

C8_Witness ==
  lastEvent = "workerCycleFails" /\ consecutiveErrors = 4
  /\ outbox = <<[type |-> "error", error |-> "Motor data missing in response"]>>

\* C9: a worker cycle that completes while running schedules the next cycle
\* after 2 x 500 ms if consecutiveErrors > 3 then, after 500 ms otherwise.
C9_BackoffDelay ==
  [][(lastEvent' \in {"workerCycleFails", "workerCycleSucceeds"} /\ isRunning) =>
       /\ pollTimer' = "pending"
       /\ pollDelay' = IF consecutiveErrors' > 3 THEN 1000 ELSE 500]_vars

C9_Witness ==
  lastEvent = "workerCycleFails" /\ consecutiveErrors = 4 /\ pollDelay = 1000

\* C10: a failed general-status fetch sets error.value to a message and leaves
\* the repeating general timer set; while the timer is set its tick issues a
\* fetch.
C10_GeneralFailureKeepsLoop ==
  /\ [][lastEvent' = "generalFails" =>
          /\ error' # "null"
          /\ mainDataInterval' = mainDataInterval]_vars
  /\ []((driver = "worker" /\ mainDataInterval /\ genInFlight < MaxInFlight)
          => ENABLED GeneralTick)

\* a tick issues a fetch while the error of the failed one is showing
C10_Witness ==
  lastEvent = "generalTick" /\ error # "null" /\ mainDataInterval /\ ~cleaned

\* ------------------------------------------------------------ claims on the commands
SetIntervalEvents ==
  {"cmdSetIntervalThrew", "cmdSetIntervalApplied", "cmdSetIntervalIgnored"}
CycleEndEvents == {"workerCycleSucceeds", "workerCycleFails"}
FetchIssuingEvents ==
  {"workerBoot", "workerTimerFires", "orphanTimerFires", "cmdStart", "cmdPoll",
   "cmdSetIntervalApplied"}

\* C11: a second cleanup() on the handle, and a second stop command to the
\* worker, complete like the first, leave every variable of the program as
\* the first call left it, and issue no fetch and set no timer.
C11_StopIsIdempotent ==
  /\ [][lastEvent' = "cleanupAgain" =>
          UNCHANGED <<mainVars, dataVars, flightVars, workerVars>>]_vars
  /\ [][(lastEvent' = "cmdStop" /\ ~lastCommand'.wasRunning) =>
          UNCHANGED <<mainVars, dataVars, flightVars, workerVars>>]_vars
  /\ [][lastEvent' \in {"cleanup", "cleanupAgain", "cmdStop"} =>
          /\ genInFlight' = genInFlight /\ motInFlight' = motInFlight
          /\ wInFlight' <= wInFlight
          /\ pollTimer' # "pending"]_vars

\* cleanup() called again after the worker was terminated by the first call
C11_Witness ==
  lastEvent = "cleanupAgain" /\ cleaned /\ workerState = "terminated"
  /\ ~mainDataInterval

\* C12: a poll command handled while the worker is stopped changes nothing in
\* the worker: no fetch, no message, no timer, no state.
C12_PollAfterStopIsNoop ==
  [][(lastEvent' = "cmdPoll" /\ ~isRunning) => UNCHANGED workerVars]_vars

\* C13: while the worker is stopped no timer it set is pending.
C13_NoTimerAfterStop ==
  ~isRunning => (pollTimer # "pending" /\ orphanTimers = 0)

C15_SetIntervalReplacesInterval ==
  [][/\ (lastEvent' \in SetIntervalEvents /\ lastCommand'.interval.type = "number"
         /\ lastCommand'.interval.value > 0) =>
           lastEvent' = "cmdSetIntervalApplied"
     /\ (lastEvent' \in CycleEndEvents /\ isRunning
         /\ lastCommand.command = "setInterval"
         /\ lastCommand.interval.type = "number"
         /\ lastCommand.interval.value > 0) =>
           pollDelay' \in {lastCommand.interval.value,
                           2 * lastCommand.interval.value}]_vars

\* C16: a setInterval command whose interval is not a number is ignored
\* without an error: no variable of the worker changes, so no fetch is issued
\* and the flag, the timer and consecutiveErrors are as before.
C16_InvalidIntervalIgnored ==
  [][(lastEvent' \in SetIntervalEvents /\ lastCommand'.interval.type # "number") =>
       /\ lastEvent' = "cmdSetIntervalIgnored"
       /\ UNCHANGED workerVars]_vars

\* a string interval arrives while the loop waits on its timer
C16_Witness ==
  lastEvent = "cmdSetIntervalIgnored" /\ lastCommand.interval.type = "string"
  /\ isRunning /\ pollTimer = "pending" /\ consecutiveErrors > 0

\* C17: a poll command handled while running with the timer pending cancels
\* the timer and issues a fetch, and then exactly one cycle is in progress.
C17_PollLeavesOneCycle ==
  [][(lastEvent' = "cmdPoll" /\ isRunning /\ pollTimer = "pending") =>
       /\ pollTimer' # "pending"
       /\ wInFlight' = wInFlight + 1
       /\ wInFlight' + orphanTimers' = 1]_vars

\* C18: a cycle that ends while the worker is running sets the timer, whatever
\* the number of failures, and from there a further fetch is issued unless a
\* stop is handled first.
C18_LoopNeverTerminates ==
  /\ [][(lastEvent' \in CycleEndEvents /\ isRunning) => pollTimer' = "pending"]_vars
  /\ ((lastEvent \in CycleEndEvents /\ isRunning)
        ~> (~isRunning \/ lastEvent \in FetchIssuingEvents))

\* the timer set by the fourth failure in a row fires
C18_Witness ==
  lastEvent = "workerTimerFires" /\ consecutiveErrors = 4 /\ isRunning
  /\ pollDelay = 1000

\* C19: a start command sets the worker running and issues a fetch at once;
\* a cycle that ends while start is the last command sets the timer; a
\* setInterval command handled while stopped leaves the worker stopped,
\* issues no fetch and sets no timer.
C19_Restartable ==
  /\ [][lastEvent' = "cmdStart" =>
          (isRunning' /\ wInFlight' = wInFlight + 1)]_vars
  /\ [][(lastEvent' \in CycleEndEvents /\ lastCommand.command = "start") =>
          pollTimer' = "pending"]_vars
  /\ [][(lastEvent' \in SetIntervalEvents /\ ~isRunning) =>
          /\ ~isRunning' /\ wInFlight' = wInFlight
          /\ pollTimer' # "pending" /\ orphanTimers' = orphanTimers]_vars

\* the cycle issued by a start that followed a stop ends and sets the timer
C19_Witness ==
  lastEvent = "workerCycleSucceeds" /\ lastCommand.command = "start"
  /\ ~lastCommand.wasRunning /\ isRunning /\ pollTimer = "pending"

\* C20: setupMotorDataWorker issues one general-status fetch, the first, and
\* sets the general timer with period 5000 ms; afterwards only a tick of that
\* timer issues a general-status fetch, one per tick.
C20_OneGeneralFetchPerTick ==
  /\ [][lastEvent' = "setupMotorDataWorker" =>
          /\ genInFlight = 0 /\ genInFlight' = 1
          /\ ~mainDataInterval /\ mainDataInterval'
          /\ mainPeriod' = 5000]_vars
  /\ [][lastEvent' = "generalTick" =>
          (genInFlight' = genInFlight + 1 /\ mainPeriod = 5000)]_vars
  /\ [][(driver' = "worker" /\ genInFlight' > genInFlight) =>
          lastEvent' \in {"setupMotorDataWorker", "generalTick"}]_vars

\* a tick issues a fetch after the fetch of the start has completed
C20_Witness ==
  lastEvent = "generalTick" /\ genInFlight = 1 /\ mainPeriod = 5000
  /\ lastUpdate = "stamped"

\* ------------------------------------------------------------ claims on failures and helpers
\* C21: a failed general-status fetch leaves every field of robotData as it
\* was; a failed motor fetch, on the fallback path or reported by the
\* worker, leaves robotData.motorData and motorUpdateKey as they were.
C21_NoPartialMerge ==
  /\ [][lastEvent' = "generalFails" => robotData' = robotData]_vars
  /\ [][lastEvent' \in {"fallbackFails", "fallbackNoMotorData", "workerCycleFails",
                        "workerError"} =>
          /\ robotData'.motorData = robotData.motorData
          /\ motorUpdateKey' = motorUpdateKey]_vars

\* a general-status fetch fails after merges of both kinds
C21_Witness ==
  lastEvent = "generalFails" /\ robotData.robotStatus = "A"
  /\ robotData.motorData = "m1" /\ robotData.pingStatus["r1"] = "up"

\* C22: once the cleanup of setupMotorDataUpdateRate has returned, neither
\* of its timers issues a fetch.
C22_RateCleanupStopsFetches ==
  [][(cleaned /\ driver = "rate") =>
       lastEvent' \notin {"fetchAllTick", "motorOnlyTick"}]_vars

\* C23: isZeroValue of each site is true exactly for undefined, null and
\* numbers of magnitude below the site's epsilon (0.0001, 0.001, 0.01); a
\* magnitude equal to epsilon is not zero.
C23_IsZeroValueStrict ==
  (call.fn = "isZeroValue" /\ result.done) =>
    result.bool =
      (\/ call.value.type \in {"undefined", "null"}
       \/ /\ call.value.type = "number" /\ call.value.int = 0
          /\ call.value.frac <
               (CASE call.site = "MotorDataService" -> 10
                  [] call.site = "MotorDataComponent" -> 100
                  [] OTHER -> 1000))

\* 0.001 exactly, at MotorDataComponent
C23_Witness ==
  call.fn = "isZeroValue" /\ result.done /\ call.site = "MotorDataComponent"
  /\ call.value = Num(FALSE, 0, 100) /\ ~result.bool

\* C24: the all-channels-zero check of each site is true exactly when the
\* site's isZeroValue holds for every tracked field of motor1 and motor2.
C24_AllZeroAgreesWithIsZeroValue ==
  (call.fn = "areAllValuesZero" /\ result.done) =>
    result.bool =
      (call.present => \A f \in Fields : IsZeroValue(call.site, call.reading[f]))

\* C25: isMotorValueAbnormal of every site is true exactly for current > 5,
\* |velocity| > 1000 and |position| > 100000.
C25_AbnormalCeilings ==
  (call.fn = "isMotorValueAbnormal" /\ result.done) =>
    result.bool =
      (/\ call.value.type = "number"
       /\ \/ /\ call.kind = "current" /\ ~call.value.neg
             /\ (call.value.int > 5 \/ (call.value.int = 5 /\ call.value.frac > 0))
          \/ /\ call.kind = "velocity"
             /\ (call.value.int > 1000
                   \/ (call.value.int = 1000 /\ call.value.frac > 0))
          \/ /\ call.kind = "position"
             /\ (call.value.int > 100000
                   \/ (call.value.int = 100000 /\ call.value.frac > 0)))

\* C26: formatMotorValue of every site gives 'N/A' for undefined and null,
\* 'Invalid' for a value that is not a number, the exponential form with 2
\* fractional digits for a magnitude above 1000, and the fixed form with 3
\* fractional digits for every other number.
C26_FormatSelectsForm ==
  (call.fn = "formatMotorValue" /\ result.done) =>
    IF call.value.type \in {"undefined", "null"} THEN result.form = "N/A"
    ELSE IF call.value.type # "number" THEN result.form = "Invalid"
    ELSE IF call.value.int > 1000 \/ (call.value.int = 1000 /\ call.value.frac > 0)
         THEN result.form = "exponential" /\ result.digits = 2
         ELSE result.form = "fixed" /\ result.digits = 3

\* C27: a pending timer of the worker was set with 500 or 1000 ms, whatever
\* the number of failures, and a successful cycle that ends while running sets
\* it with 500 ms, also when the previous one was set with 1000 ms.
C27_BackoffBoundedAndRecovers ==
  /\ [](pollTimer = "pending" => pollDelay \in {500, 1000})
  /\ [][(lastEvent' \in CycleEndEvents /\ isRunning) =>
          pollDelay' \in {500, 1000}]_vars
  /\ [][(lastEvent' = "workerCycleSucceeds" /\ isRunning) =>
          (pollTimer' = "pending" /\ pollDelay' = 500)]_vars

\* the delay is doubled, not more, at the largest number of failures followed
C27_Witness ==
  pollTimer = "pending" /\ pollDelay = 1000 /\ consecutiveErrors = 4
  /\ lastEvent = "messageTaken" /\ isRunning

\* C28: the worker is created only by setupMotorDataWorker, which runs once;
\* the fallback timer is set only there and only when the worker was not
\* created; a live worker and a set fallback timer never coexist.
C28_OnePollerPerSetup ==
  /\ [](~(worker /\ motorInterval)
        /\ (workerState \in {"loading", "running"} => ~motorInterval))
  /\ [][lastEvent' = "setupMotorDataWorker" => setup = "notStarted"]_vars
  /\ [][(workerState = "none" /\ workerState' # "none") =>
          lastEvent' = "setupMotorDataWorker"]_vars
  /\ [][(motorInterval' /\ ~motorInterval) =>
          /\ lastEvent' = "setupMotorDataWorker"
          /\ ~worker' /\ workerState' = "none"]_vars

\* the fallback poller merges while no worker exists
C28_Witness ==
  driver = "worker" /\ workerState = "none" /\ ~worker /\ motorInterval
  /\ lastEvent = "fallbackMerge" /\ motorUpdateKey = 1

\* C29: a cycle that ends appends exactly one message to those posted: after
\* a success a motorData message with the response's motor_data, a pingStatus
\* and the timestamp read when the fetch was issued; after a failure an error
\* message whose error is a text.
C29_OneMessagePerCycle ==
  [][lastEvent' \in CycleEndEvents =>
       /\ Len(outbox') = Len(outbox) + 1
       /\ SubSeq(outbox', 1, Len(outbox)) = outbox
       /\ LET m == outbox'[Len(outbox')] IN
            IF lastEvent' = "workerCycleSucceeds"
            THEN /\ DOMAIN m = {"type", "motorData", "pingStatus", "timestamp"}
                 /\ m.type = "motorData" /\ m.motorData \in MotorVals
                 /\ m.pingStatus \in PingMaps /\ m.timestamp = "issued"
            ELSE /\ DOMAIN m = {"type", "error"}
                 /\ m.type = "error"
                 /\ m.error \in {"Failed to fetch", "Server responded with status",
                                  "Unexpected token",
                                  "Motor data missing in response"}]_vars

C29_Witness ==
  lastEvent = "workerCycleSucceeds" /\ Len(outbox) = 1
  /\ outbox[1].motorData = "m1" /\ outbox[1].pingStatus["r1"] = "up"
  /\ outbox[1].timestamp = "issued"

\* C30: a start command handled while stopped leaves consecutiveErrors at 0.
C30_RestartResetsErrors ==
  [][(lastEvent' = "cmdStart" /\ ~isRunning) => consecutiveErrors' = 0]_vars

\* ------------------------------------------------------------ claims on the whole program
\* C33: the worker runs at most one polling loop: fetches in flight plus
\* timers that will fire never exceed 1.
C33_AtMostOneLoop == Chains <= 1

\* C34: in both drivers every step that replaces robotData.motorData adds 1
\* to motorUpdateKey.
C34_KeyFollowsMotorData ==
  [][robotData'.motorData # robotData.motorData =>
       motorUpdateKey' = motorUpdateKey + 1]_vars

\* C35: once the cleanup of setupMotorDataWorker's handle has returned,
\* robotData, error, lastUpdate and motorUpdateKey no longer change.
C35_FrozenAfterCleanup ==
  [][(cleaned /\ driver = "worker") =>
       UNCHANGED <<robotData, error, lastUpdate, motorUpdateKey>>]_vars

\* the completions of fetchGeneralData and fetchAllData
GeneralSuccessEvents == {"generalSucceeds", "fetchAllSucceeds"}
GeneralFailureEvents == {"generalFails", "fetchAllFails"}

\* C36: a general-status fetch that succeeds leaves error null, one that
\* fails leaves it a message, either leaves loading false, and no other step
\* changes error or loading.
C36_ErrorReflectsLastGeneralFetch ==
  /\ [][lastEvent' \in GeneralSuccessEvents => (error' = "null" /\ ~loading')]_vars
  /\ [][lastEvent' \in GeneralFailureEvents => (error' # "null" /\ ~loading')]_vars
  /\ [][lastEvent' \notin (GeneralSuccessEvents \cup GeneralFailureEvents) =>
          (error' = error /\ loading' = loading)]_vars

\* an error shown after a motor merge, with a status of an earlier success
C36_Witness ==
  error # "null" /\ ~loading /\ lastUpdate = "stamped"
  /\ lastEvent \in MotorMergeEvents /\ driver = "worker"

\* C31: a successful general-status merge of setupMotorDataWorker replaces
\* each of pingStatus, robotStatus and cleaningDeviceStatus that the response
\* carries by the response's value and keeps the snapshot's value of each it
\* lacks.
C31_GeneralMergeFieldwise ==
  [][lastEvent' = "generalSucceeds" =>
       /\ robotData'.pingStatus =
            (IF response.ping_status.has THEN response.ping_status.map
             ELSE robotData.pingStatus)
       /\ robotData'.robotStatus =
            (IF response.robot_status # "absent" THEN response.robot_status
             ELSE robotData.robotStatus)
       /\ robotData'.cleaningDeviceStatus =
            (IF response.cleaning_device_status # "absent"
             THEN response.cleaning_device_status
             ELSE robotData.cleaningDeviceStatus)]_vars

\* a response with robot_status only: the two other fields are the snapshot's
C31_Witness ==
  /\ lastEvent = "generalSucceeds"
  /\ response.robot_status = "{}" /\ response.cleaning_device_status = "absent"
  /\ ~response.ping_status.has
  /\ robotData.robotStatus = "{}" /\ robotData.cleaningDeviceStatus = "A"
  /\ robotData.pingStatus["r1"] = "up"

\* C32: on the fallback path the motor_data merged into the snapshot is
\* always that of a fetch issued later than the fetch merged before it.
C32_MergesInIssueOrder ==
  [][lastEvent' = "fallbackMerge" => mergedSeq' > mergedSeq]_vars

\* what the methods that require confirmation would send
ConfirmRequests == {Request(m.endpoint, m.payload) : m \in {x \in Methods : x.confirm}}
ConfirmNames == {m.name : m \in {x \in Methods : x.confirm}}

\* C37: stopRobot, resetEstop, navigateToDock, startDocking and emergencyStop
\* send no request and open the dialog for their endpoint; confirmAction sends
\* the request of the dialog's action; cancelAction sends nothing and closes
\* the dialog; a request of one of these methods is sent by confirmAction only.
C37_ConfirmationGatesRequests ==
  /\ [][lastEvent' \in ConfirmNames =>
          /\ httpRequests' = httpRequests
          /\ confirmDialog'.show
          /\ \E m \in Methods :
               /\ m.name = lastEvent' /\ confirmDialog'.action = m.endpoint
               /\ confirmDialog'.payload = m.payload]_vars
  /\ [][lastEvent' = "confirmAction" =>
          httpRequests' =
            Append(httpRequests,
                   Request(confirmDialog.action,
                           IF confirmDialog.payload = "undefined" THEN "{}"
                           ELSE confirmDialog.payload))]_vars
  /\ [][lastEvent' = "cancelAction" =>
          (httpRequests' = httpRequests /\ ~confirmDialog'.show)]_vars
  /\ [][(Len(httpRequests') > Len(httpRequests)
          /\ httpRequests'[Len(httpRequests')] \in ConfirmRequests) =>
          lastEvent' = "confirmAction"]_vars
  /\ [][lastEvent' = "commandCompletes" => httpRequests' = httpRequests]_vars

\* the emergency stop, confirmed: its request is sent and awaited
C37_Witness ==
  /\ lastEvent = "confirmAction" /\ Len(httpRequests) = 1
  /\ httpRequests[1] = Request("manage_goals", "exec_code 5")
  /\ confirmDialog.show /\ ctlLoading

====
